---------------------------- MODULE Spec2Model ----------------------------
(***************************************************************************)
(* Retrieval-augmented chat scripts of PLN_II:                             *)
(*   TP-2/vector_db.py  search_similar (formatted preview strings)         *)
(*   TP-2/chat_groq.py  ChatSession and its console loop                   *)
(*   TP-3/cv_agent.py   search_similar, CVSelectorTool, CVRetrieverTool,   *)
(*                      LLMResponderTool, CVChatAgent and its console loop *)
(*                                                                         *)
(* A text is a sequence of one-character strings (a fixed literal of the   *)
(* source may be kept as one multi-character element).  The remote         *)
(* services (Pinecone, Groq) are an environment: each remote call either   *)
(* raises or returns a value, chosen nondeterministically.                 *)
(***************************************************************************)
EXTENDS Integers, Sequences, FiniteSets, TLC

VARIABLES
    script,        \* which program runs: "cv_agent", "chat_groq", "vector_db" or "tools"
    pc,            \* position of the program
    messages,      \* self.messages of the session / agent object
    user_input,    \* console loop: the line read last
    user_message,  \* chat(): the user_message argument of the current turn
    target_index,  \* CVChatAgent.chat: target_index
    results,       \* raw payload index.search returned in the current turn
    context_docs,  \* chat: context_docs
    response,      \* the responder's local `response`
    emitted,       \* fragments printed to the console in the current turn
    ret,           \* value returned by the last completed chat() call
    outcome,       \* how the last chat() call ended
    raised,        \* the exception that reached the console loop, if any
    turns,         \* chat() calls started so far
    turnStart,     \* Len(messages) when the current turn started
    toolRuns,      \* tool runs of the current turn: selector, retriever, responder
    exitStatus,    \* status handed to sys.exit, -1 while running
    probe,         \* tool harness: the last tool call and what it returned
    remote,        \* vector store: state of the index "cv-index" and requests seen
    ingest         \* vector_db.py run: locals of ensure_index and load_data

vars == <<script, pc, messages, user_input, user_message, target_index, results,
          context_docs, response, emitted, ret, outcome, raised, turns,
          turnStart, toolRuns, exitStatus, probe,
          remote, ingest>>

---------------------------------------------------------------------------
(* Bounds of the model *)

MaxRuns == 2         \* runs of vector_db.py against the same vector store
MaxSentences == 5    \* sentences in cv1.txt
MaxDeletes == 1      \* deletions of the index by its owner, outside the program
MaxTurns == 2        \* chat() calls per run
MaxChunks == 2       \* stream chunks delivered per completion
MaxHits == 3         \* hits per payload in the tool harness
MaxAnswerLen == 3    \* characters of the selector model's answer

(* Program constants *)

PreviewWidth == 80   \* vector_db.search_similar: chunk_text[:80]
SnippetWidth == 300  \* CVChatAgent.chat: txt[:300]
IdWidth == 10        \* vector_db.search_similar: {hit['_id']:<10}
ScoreWidth == 5      \* vector_db.search_similar: {round(...):<5}
CategoryWidth == 10  \* vector_db.search_similar: {...['category']:<10}
SelectorSnippets == 3 \* CVSelectorTool.run: chunks[:3]
CHUNK_SIZE == 3      \* vector_db.py: CHUNK_SIZE
CHUNK_OVERLAP == 1   \* vector_db.py: CHUNK_OVERLAP
ContextDocs == 5     \* CVChatAgent.chat: context_docs[:5]

---------------------------------------------------------------------------
(* Text primitives *)

Min(a, b) == IF a < b THEN a ELSE b

EmptyText == <<>>

\* s[:n]
Take(s, n) == SubSeq(s, 1, Min(n, Len(s)))

WhiteSpace == {" ", "\n", "\t"}

RECURSIVE LStrip(_)
LStrip(s) ==
    IF s # <<>> /\ Head(s) \in WhiteSpace THEN LStrip(Tail(s)) ELSE s

RECURSIVE RStrip(_)
RStrip(s) ==
    IF s # <<>> /\ s[Len(s)] \in WhiteSpace
    THEN RStrip(SubSeq(s, 1, Len(s) - 1))
    ELSE s

\* str.strip()
Strip(s) == RStrip(LStrip(s))

\* sep.join(parts)
RECURSIVE Join(_, _)
Join(sep, parts) ==
    IF parts = <<>> THEN EmptyText
    ELSE IF Len(parts) = 1 THEN parts[1]
    ELSE parts[1] \o sep \o Join(sep, Tail(parts))

\* "".join(parts)
RECURSIVE Concat(_)
Concat(parts) ==
    IF parts = <<>> THEN EmptyText ELSE Head(parts) \o Concat(Tail(parts))

\* format spec :<w  (left-align, pad with spaces to width w)
PadRight(s, w) ==
    IF Len(s) >= w THEN s ELSE s \o [i \in 1..(w - Len(s)) |-> " "]

IsPrefix(s, t) == Len(s) <= Len(t) /\ SubSeq(t, 1, Len(s)) = s

\* seq[:n] on a list
FirstN(seq, n) == SubSeq(seq, 1, Min(n, Len(seq)))

RECURSIVE MapText(_)
MapText(docs) ==
    IF docs = <<>> THEN <<>> ELSE <<Head(docs).text>> \o MapText(Tail(docs))

NonEmpty(t) == t # EmptyText

\* Scores are held in thousandths (912 is 0.912).  round(x, 2) gives a
\* multiple of ten thousandths; the inputs used here have no exact ties.
Round2(m) == ((m + 5) \div 10) * 10

Digit(d) == <<"0", "1", "2", "3", "4", "5", "6", "7", "8", "9">>[d + 1]

\* str() of a float that round(x, 2) returned: 910 is "0.91", 500 is "0.5"
FormatScore(m) ==
    LET whole == m \div 1000
        h == (m % 1000) \div 10
    IN  <<Digit(whole), ".">> \o
        (IF h % 10 = 0 THEN <<Digit(h \div 10)>>
                       ELSE <<Digit(h \div 10), Digit(h % 10)>>)

---------------------------------------------------------------------------
(* Outcomes of remote calls *)

Ok(v) == [ok |-> TRUE, value |-> v]
Failed == [ok |-> FALSE, value |-> <<>>]

(* A raw hit of a search payload.  The JSON object is held flat:           *)
(*   has_id / id            "_id" present, its value                       *)
(*   score_kind / score     "_score" missing, a number, or not a number    *)
(*   fields_kind            "fields" missing, an object, or not an object  *)
(*   has_category, has_text keys of the "fields" object                    *)
RawHit(hasId, id, scoreKind, score, fieldsKind, hasCat, cat, hasText, text) ==
    [has_id |-> hasId, id |-> id, score_kind |-> scoreKind, score |-> score,
     fields_kind |-> fieldsKind, has_category |-> hasCat, category |-> cat,
     has_text |-> hasText, text |-> text]

ShortText == <<"c", "v">>
LongText == [i \in 1..(SnippetWidth + 1) |-> IF i = SnippetWidth + 1 THEN "z" ELSE "x"]
CvCategory == <<"c", "v">>
Id1 == <<"i", "1">>
Id2 == <<"i", "2">>

GoodHit(id, score, text) ==
    RawHit(TRUE, id, "number", score, "dict", TRUE, CvCategory, TRUE, text)
HitNoCategory ==
    RawHit(TRUE, Id1, "number", 912, "dict", FALSE, EmptyText, TRUE, ShortText)
HitNoText ==
    RawHit(TRUE, Id1, "number", 912, "dict", TRUE, CvCategory, FALSE, EmptyText)
HitNoId ==
    RawHit(FALSE, EmptyText, "number", 912, "dict", TRUE, CvCategory, TRUE, ShortText)
HitNoScore ==
    RawHit(TRUE, Id1, "missing", 0, "dict", TRUE, CvCategory, TRUE, ShortText)
HitNoFields ==
    RawHit(TRUE, Id1, "number", 912, "missing", FALSE, EmptyText, FALSE, EmptyText)
HitBadScore ==
    RawHit(TRUE, Id1, "bad", 0, "dict", TRUE, CvCategory, TRUE, ShortText)
HitBadFields ==
    RawHit(TRUE, Id1, "number", 912, "bad", FALSE, EmptyText, FALSE, EmptyText)

\* a hit with every field in place
WellFormed(h) ==
    /\ h.has_id
    /\ h.score_kind = "number"
    /\ h.fields_kind = "dict"
    /\ h.has_category
    /\ h.has_text

\* a hit that only lacks fields (nothing in it has the wrong type)
OnlyLacksFields(h) == h.score_kind # "bad" /\ h.fields_kind # "bad"

---------------------------------------------------------------------------
(* TP-3/cv_agent.py: search_similar *)

\* float(hit.get("_score", 0.0)) or hit.get("fields", {}).get(...) raises
AgentEntryRaises(h) == h.score_kind = "bad" \/ h.fields_kind = "bad"

AgentEntry(h) ==
    [id |-> IF h.has_id THEN h.id ELSE EmptyText,
     score |-> IF h.score_kind = "number" THEN Round2(h.score) ELSE 0,
     category |-> IF h.fields_kind = "dict" /\ h.has_category
                  THEN h.category ELSE EmptyText,
     text |-> IF h.fields_kind = "dict" /\ h.has_text
              THEN h.text ELSE EmptyText]

\* the try block around the whole for loop: the first hit that raises ends
\* the loop, and data keeps what was appended before it
RECURSIVE AgentParseHits(_, _)
AgentParseHits(hits, data) ==
    IF hits = <<>> THEN data
    ELSE IF AgentEntryRaises(Head(hits)) THEN data
    ELSE AgentParseHits(Tail(hits), Append(data, AgentEntry(Head(hits))))

\* searchOut: outcome of index.search
AgentSearchSimilar(searchOut) ==
    IF ~searchOut.ok THEN <<>> ELSE AgentParseHits(searchOut.value, <<>>)

---------------------------------------------------------------------------
(* TP-2/vector_db.py: search_similar *)

\* hit['_id'], round(hit['_score'], 2), hit['fields']['category'] or
\* hit['fields']['chunk_text'] raises
BaseEntryRaises(h) == ~WellFormed(h)

BaseEntry(h) ==
    <<"id: ">> \o PadRight(h.id, IdWidth) \o <<" | ">> \o
    <<"score: ">> \o PadRight(FormatScore(Round2(h.score)), ScoreWidth) \o <<" | ">> \o
    <<"category: ">> \o PadRight(h.category, CategoryWidth) \o <<" | ">> \o
    <<"text: ">> \o Take(h.text, PreviewWidth) \o <<"...">>

\* the loop has no try block: [raised, data]
RECURSIVE BaseParseHits(_, _)
BaseParseHits(hits, data) ==
    IF hits = <<>> THEN [raised |-> FALSE, data |-> data]
    ELSE IF BaseEntryRaises(Head(hits)) THEN [raised |-> TRUE, data |-> <<>>]
    ELSE BaseParseHits(Tail(hits), Append(data, BaseEntry(Head(hits))))

\* statsOut, searchOut: outcomes of describe_index_stats and index.search
BaseSearchSimilar(statsOut, searchOut) ==
    IF ~statsOut.ok \/ ~searchOut.ok THEN [raised |-> TRUE, data |-> <<>>]
    ELSE BaseParseHits(searchOut.value, <<>>)

---------------------------------------------------------------------------
(* TP-3/cv_agent.py: CVSelectorTool *)

NoMatches == <<"(sin coincidencias relevantes)">>

\* cv_chunks is a dict: a sequence of [key, value] in insertion order
DictHas(d, k) == \E i \in 1..Len(d) : d[i].key = k

DictSet(d, k, v) ==
    IF DictHas(d, k)
    THEN [i \in 1..Len(d) |-> IF d[i].key = k THEN [key |-> k, value |-> v] ELSE d[i]]
    ELSE Append(d, [key |-> k, value |-> v])

Call(op, arg) == [op |-> op, arg |-> arg]

\* chunk_texts = [c.get("text", "") for c in results if c.get("text")]
ChunkTexts(found) ==
    LET texts == SelectSeq(MapText(found), NonEmpty)
    IN  IF texts = <<>> THEN <<NoMatches>> ELSE texts

\* the for loop over the listed indexes; acc = [cv_chunks, calls]
RECURSIVE SelectorScan(_, _, _, _)
SelectorScan(indexes, openOk, searchOut, acc) ==
    IF indexes = <<>> THEN acc
    ELSE
        LET idx == Head(indexes)
            opened == Append(acc.calls, Call("Index", idx))
        IN  IF ~openOk[idx]
            THEN SelectorScan(Tail(indexes), openOk, searchOut,
                              [cv_chunks |-> acc.cv_chunks, calls |-> opened])
            ELSE SelectorScan(Tail(indexes), openOk, searchOut,
                     [cv_chunks |-> DictSet(acc.cv_chunks, idx,
                                       ChunkTexts(AgentSearchSimilar(searchOut[idx]))),
                      calls |-> Append(opened, Call("search", idx))])

RECURSIVE PromptLines(_)
PromptLines(d) ==
    IF d = <<>> THEN EmptyText
    ELSE <<"- Indice: ">> \o Head(d).key \o <<"\n  Contenido: ">> \o
         Join(<<" | ">>, FirstN(Head(d).value, SelectorSnippets)) \o <<"\n">> \o
         PromptLines(Tail(d))

SelectorPrompt(cv_chunks) ==
    <<"Tienes estos indices con sus contenidos mas relevantes:\n">> \o
    PromptLines(cv_chunks) \o
    <<"\nInstruccion: Dada la consulta del usuario, responde SOLO con el NOMBRE EXACTO del indice mas relevante. No incluyas texto adicional.">>

\* the answer of the non-streamed completion: the call raises, or the
\* content of its first choice is None, or it is a text
LlmFailed == [ok |-> FALSE, has_content |-> FALSE, content |-> EmptyText]
LlmNone == [ok |-> TRUE, has_content |-> FALSE, content |-> EmptyText]
LlmAnswer(t) == [ok |-> TRUE, has_content |-> TRUE, content |-> t]

\* the answer returned without the membership test
SelectorValidateUnchecked(selected_idx, cv_chunks) == selected_idx

\* return selected_idx if selected_idx in cv_chunks else ""
SelectorValidate(selected_idx, cv_chunks) ==
    IF DictHas(cv_chunks, selected_idx) THEN selected_idx ELSE EmptyText

\* the part of run after the listing succeeded with at least one index
SelectorDecide(indexes, openOk, searchOut, llm) ==
    LET scan == SelectorScan(indexes, openOk, searchOut,
                    [cv_chunks |-> <<>>, calls |-> <<Call("list_indexes", EmptyText)>>])
        calls == Append(scan.calls,
                    Call("chat.completions.create", SelectorPrompt(scan.cv_chunks)))
    IN  IF ~llm.ok \/ ~llm.has_content
        THEN [ret |-> EmptyText, calls |-> calls]
        ELSE [ret |-> SelectorValidate(Strip(llm.content), scan.cv_chunks),
              calls |-> calls]

\* run without the `if not indexes` return
CVSelectorRunNoEmptyCheck(listing, openOk, searchOut, llm) ==
    IF ~listing.ok THEN
        [ret |-> EmptyText, calls |-> <<Call("list_indexes", EmptyText)>>]
    ELSE SelectorDecide(listing.value, openOk, searchOut, llm)

\* CVSelectorTool.run(query): [ret, calls], calls being the remote calls
\* issued, in order
CVSelectorRun(listing, openOk, searchOut, llm) ==
    IF ~listing.ok THEN
        [ret |-> EmptyText, calls |-> <<Call("list_indexes", EmptyText)>>]
    ELSE IF listing.value = <<>> THEN
        [ret |-> EmptyText, calls |-> <<Call("list_indexes", EmptyText)>>]
    ELSE SelectorDecide(listing.value, openOk, searchOut, llm)

(* TP-3/cv_agent.py: CVRetrieverTool *)

CVRetrieverRun(openOk, searchOut) ==
    IF ~openOk THEN <<>> ELSE AgentSearchSimilar(searchOut)

---------------------------------------------------------------------------
(* Tool harness: each tool is called on every input of a bounded set and   *)
(* the call and its result are kept in probe.                              *)

Range(f) == {f[i] : i \in DOMAIN f}

RECURSIVE SeqsUpTo(_, _)
SeqsUpTo(S, n) ==
    IF n = 0 THEN {<<>>}
    ELSE LET shorter == SeqsUpTo(S, n - 1)
         IN  shorter \cup {Append(q, x) : q \in {r \in shorter : Len(r) = n - 1}, x \in S}

NameA == <<"a">>
NameB == <<"b">>
IndexNames == {NameA, NameB}

\* list_indexes: it raises, or returns index names, each once
Listings ==
    {Failed} \cup
    {Ok(l) : l \in {q \in SeqsUpTo(IndexNames, Cardinality(IndexNames)) :
                        \A i, j \in 1..Len(q) : q[i] = q[j] => i = j}}

AnswerChars == {"a", "b", " ", "\n"}
LlmOutcomes ==
    {LlmFailed, LlmNone} \cup {LlmAnswer(t) : t \in SeqsUpTo(AnswerChars, MaxAnswerLen)}

SelectorSearchOutcomes ==
    {Failed, Ok(<<>>), Ok(<<GoodHit(Id1, 912, ShortText), HitNoText>>)}

HitVariants ==
    {GoodHit(Id1, 912, ShortText), GoodHit(Id2, 500, ShortText), HitNoCategory,
     HitNoText, HitNoId, HitNoScore, HitNoFields, HitBadScore, HitBadFields}

Payloads == SeqsUpTo(HitVariants, MaxHits)

NoProbe ==
    [tool |-> "none", listing |-> Failed, llm |-> LlmFailed,
     sel |-> [ret |-> EmptyText, calls |-> <<>>],
     statsOut |-> Failed, searchOut |-> Failed,
     agentData |-> <<>>, baseOut |-> [raised |-> FALSE, data |-> <<>>]]

ProbeSelector ==
    /\ script = "tools"
    /\ probe.tool = "none"
    /\ \E listing \in Listings, openOk \in [IndexNames -> BOOLEAN],
          searchOut \in [IndexNames -> SelectorSearchOutcomes], llm \in LlmOutcomes :
          probe' = [NoProbe EXCEPT !.tool = "selector", !.listing = listing, !.llm = llm,
                        !.sel = CVSelectorRun(listing, openOk, searchOut, llm)]
    /\ UNCHANGED <<remote, ingest, script, pc, messages, user_input, user_message, target_index, results,
                   context_docs, response, emitted, ret, outcome, raised, turns,
                   turnStart, toolRuns, exitStatus>>

ProbeAgentSearch ==
    /\ script = "tools"
    /\ probe.tool = "none"
    /\ \E searchOut \in {Failed} \cup {Ok(p) : p \in Payloads} :
          probe' = [NoProbe EXCEPT !.tool = "agent_search", !.searchOut = searchOut,
                        !.agentData = AgentSearchSimilar(searchOut)]
    /\ UNCHANGED <<remote, ingest, script, pc, messages, user_input, user_message, target_index, results,
                   context_docs, response, emitted, ret, outcome, raised, turns,
                   turnStart, toolRuns, exitStatus>>

ProbeBaseSearch ==
    /\ script = "tools"
    /\ probe.tool = "none"
    /\ \E statsOut \in {Failed, Ok(<<>>)}, searchOut \in {Failed} \cup {Ok(p) : p \in Payloads} :
          probe' = [NoProbe EXCEPT !.tool = "base_search", !.statsOut = statsOut,
                        !.searchOut = searchOut,
                        !.baseOut = BaseSearchSimilar(statsOut, searchOut)]
    /\ UNCHANGED <<remote, ingest, script, pc, messages, user_input, user_message, target_index, results,
                   context_docs, response, emitted, ret, outcome, raised, turns,
                   turnStart, toolRuns, exitStatus>>

\* the index does not exist and no request was made
NoRemote == [status |-> "absent", creates |-> 0, deletes |-> 0, records |-> {}]

\* a run of vector_db.py that has not called ensure_index yet
NoIngest ==
    [runs |-> 1, listed |-> FALSE, handle |-> FALSE, sentences |-> 0,
     chunks |-> <<>>, i |-> 0, acked |-> {}, loaded |-> "no"]

NoValue == <<"<none>">>
NoCalls == [selector |-> 0, retriever |-> 0, responder |-> 0]

InitCommon ==
    /\ pc = "Startup"
    /\ messages = <<>>
    /\ user_input = EmptyText
    /\ user_message = EmptyText
    /\ target_index = EmptyText
    /\ results = Failed
    /\ context_docs = <<>>
    /\ response = EmptyText
    /\ emitted = <<>>
    /\ ret = NoValue
    /\ outcome = "none"
    /\ raised = "none"
    /\ turns = 0
    /\ turnStart = 0
    /\ toolRuns = NoCalls
    /\ exitStatus = -1
    /\ probe = NoProbe
    /\ remote = NoRemote
    /\ ingest = NoIngest

InitTools == script = "tools" /\ InitCommon

NextTools == ProbeSelector \/ ProbeAgentSearch \/ ProbeBaseSearch

SpecTools == InitTools /\ [][NextTools]_vars

---------------------------------------------------------------------------
(* Console input *)

UpperCase == <<"A", "B", "C", "D", "E", "F", "G", "H", "I", "J", "K", "L", "M",
               "N", "O", "P", "Q", "R", "S", "T", "U", "V", "W", "X", "Y", "Z">>
LowerCase == <<"a", "b", "c", "d", "e", "f", "g", "h", "i", "j", "k", "l", "m",
               "n", "o", "p", "q", "r", "s", "t", "u", "v", "w", "x", "y", "z">>

LowerChar(c) ==
    IF \E i \in 1..Len(UpperCase) : UpperCase[i] = c
    THEN LowerCase[CHOOSE i \in 1..Len(UpperCase) : UpperCase[i] = c]
    ELSE c

\* str.lower()
Lower(s) == [i \in 1..Len(s) |-> LowerChar(s[i])]

ExitTokens == {<<"e", "x", "i", "t">>, <<"q", "u", "i", "t">>}

\* user_input in {"exit", "quit"}
IsExitTokenCaseSensitive(line) == line \in ExitTokens

\* user_input.lower() in {"exit", "quit"}
IsExitToken(line) == Lower(line) \in ExitTokens

Query == <<"q">>

\* the lines typed at the prompt
InputLines ==
    {<<"e", "x", "i", "t">>, <<"Q", "u", "I", "t">>, <<" ">>, Query}

---------------------------------------------------------------------------
(* Conversation history *)

Message(role, content) == [role |-> role, content |-> content]

\* the history replaced by the new message
add_messageReset(msgs, role, content) == <<Message(role, content)>>

\* ChatSession.add_message; self.messages.append in CVChatAgent.chat
add_message(msgs, role, content) == Append(msgs, Message(role, content))

Apology == <<"Ocurrio un error generando la respuesta.">>
NoRelevantCV == <<"No encontre un CV relevante para tu consulta.">>

\* the stream chunks' text fragments
Fragments == {<<"x">>, <<"y", "z">>}

---------------------------------------------------------------------------
(* Startup and exit, both scripts *)

\* the clients are constructed (cv_agent: Groq, Pinecone; chat_groq: Groq,
\* then Pinecone and Index in ChatSession.__init__)
StartupOk ==
    /\ script \in {"cv_agent", "chat_groq"}
    /\ pc = "Startup"
    /\ pc' = "AwaitingInput"
    /\ UNCHANGED <<remote, ingest, script, messages, user_input, user_message, target_index, results,
                   context_docs, response, emitted, ret, outcome, raised, turns,
                   turnStart, toolRuns, exitStatus, probe>>

\* a client constructor raises and the script exits with status 0
StartupFailStatusZero ==
    /\ script \in {"cv_agent", "chat_groq"}
    /\ pc = "Startup"
    /\ pc' = "Exited"
    /\ exitStatus' = 0
    /\ raised' = "StartupError"
    /\ UNCHANGED <<remote, ingest, script, messages, user_input, user_message, target_index, results,
                   context_docs, response, emitted, ret, outcome, turns,
                   turnStart, toolRuns, probe>>

\* a client constructor raises: sys.exit(1)
StartupFail ==
    /\ script \in {"cv_agent", "chat_groq"}
    /\ pc = "Startup"
    /\ pc' = "Exited"
    /\ exitStatus' = 1
    /\ raised' = "StartupError"
    /\ UNCHANGED <<remote, ingest, script, messages, user_input, user_message, target_index, results,
                   context_docs, response, emitted, ret, outcome, turns,
                   turnStart, toolRuns, probe>>

InLoop == pc \in {"AwaitingInput", "Selecting", "Retrieving", "Generating", "Streaming"}

\* an exception other than KeyboardInterrupt leaves the loop.  cv_agent:
\* no except clause matches and finally runs sys.exit(0); chat_groq: except
\* Exception prints it and finally runs sys.exit(0)
Propagate(exc) ==
    /\ pc' = "Exited"
    /\ raised' = exc
    /\ outcome' = (IF pc = "AwaitingInput" THEN outcome ELSE "raised")
    /\ exitStatus' = 0

\* Ctrl-C at the prompt or inside a turn: except KeyboardInterrupt, then
\* finally sys.exit(0)
Interrupt ==
    /\ script \in {"cv_agent", "chat_groq"}
    /\ InLoop
    /\ Propagate("KeyboardInterrupt")
    /\ UNCHANGED <<remote, ingest, script, messages, user_input, user_message, target_index, results,
                   context_docs, response, emitted, ret, turns, turnStart,
                   toolRuns, probe>>

\* a turn that starts at the retriever, whatever the script
BeginTurnAtRetrieving(line, firstPc) ==
    /\ turns < MaxTurns
    /\ pc' = "Retrieving"
    /\ user_input' = line
    /\ user_message' = line
    /\ turns' = turns + 1
    /\ turnStart' = Len(messages)
    /\ target_index' = EmptyText
    /\ results' = Failed
    /\ context_docs' = <<>>
    /\ response' = EmptyText
    /\ emitted' = <<>>
    /\ ret' = NoValue
    /\ outcome' = "none"
    /\ toolRuns' = NoCalls
    /\ UNCHANGED <<remote, ingest, script, messages, raised, exitStatus, probe>>

\* a turn starts: the locals of the previous chat() call are gone
BeginTurn(line, firstPc) ==
    /\ turns < MaxTurns
    /\ pc' = firstPc
    /\ user_input' = line
    /\ user_message' = line
    /\ turns' = turns + 1
    /\ turnStart' = Len(messages)
    /\ target_index' = EmptyText
    /\ results' = Failed
    /\ context_docs' = <<>>
    /\ response' = EmptyText
    /\ emitted' = <<>>
    /\ ret' = NoValue
    /\ outcome' = "none"
    /\ toolRuns' = NoCalls
    /\ UNCHANGED <<remote, ingest, script, messages, raised, exitStatus, probe>>

\* chat() returns: its locals are gone
LocalsGone ==
    /\ target_index' = EmptyText
    /\ results' = Failed
    /\ context_docs' = <<>>
    /\ response' = EmptyText

\* break out of the loop: finally sys.exit(0)
ExitLoop(line) ==
    /\ pc' = "Exited"
    /\ exitStatus' = 0
    /\ user_input' = line
    /\ UNCHANGED <<remote, ingest, script, messages, user_message, target_index, results,
                   context_docs, response, emitted, ret, outcome, raised, turns,
                   turnStart, toolRuns, probe>>

---------------------------------------------------------------------------
(* TP-3/cv_agent.py: main and CVChatAgent.chat *)

SystemMsg ==
    <<"Eres un asistente que responde preguntas basandote EXCLUSIVAMENTE en el contexto provisto. Si el contexto no contiene la respuesta, reconoce la limitacion y sugiere preguntar de otra forma.">>

\* for doc in context_docs[:5]: txt = doc.get("text", ""); if txt: txt[:300]
RECURSIVE SnippetsOf(_)
SnippetsOf(docs) ==
    IF docs = <<>> THEN <<>>
    ELSE (IF Head(docs).text # EmptyText
          THEN <<Take(Head(docs).text, SnippetWidth)>> ELSE <<>>)
         \o SnippetsOf(Tail(docs))

ContextSnippets(docs) == SnippetsOf(FirstN(docs, ContextDocs))

ContextBlob(context_snippets) ==
    IF context_snippets # <<>> THEN Join(<<"\n- ">>, context_snippets)
    ELSE <<"(sin contexto relevante)">>

AgentUserMsg(q, target, context_blob) ==
    <<"Consulta del usuario: ">> \o q \o <<"\n\n">> \o
    <<"Indice seleccionado: ">> \o target \o <<"\n">> \o
    <<"Contexto (fragmentos):\n- ">> \o context_blob \o <<"\n\n">> \o
    <<"Responde de forma concisa y util.">>

\* what the services answer inside a turn
TurnListings == {Failed, Ok(<<>>), Ok(<<NameA>>), Ok(<<NameB, NameA>>)}
TurnSelectorSearches ==
    {[n \in IndexNames |-> Failed],
     [n \in IndexNames |-> Ok(<<GoodHit(Id1, 912, ShortText)>>)]}
TurnLlmOutcomes ==
    {LlmFailed, LlmAnswer(NameA), LlmAnswer(<<"a", "\n">>), LlmAnswer(<<"a", "b">>)}
HitLong == GoodHit(Id1, 912, LongText)
HitLongNoCategory ==
    RawHit(TRUE, Id2, "number", 500, "dict", FALSE, EmptyText, TRUE, LongText)
TurnSearchOutcomes == {Failed, Ok(<<HitLong>>), Ok(<<HitLongNoCategory>>)}

\* the loop without `if not user_input: continue`
AgentReadInputNoEmptyCheck ==
    /\ script = "cv_agent"
    /\ pc = "AwaitingInput"
    /\ \E line \in InputLines :
          IF IsExitToken(Strip(line)) THEN ExitLoop(Strip(line))
          ELSE BeginTurn(Strip(line), "Selecting")

\* user_input = input("Tu: ").strip(); exit token: break; empty: continue;
\* otherwise agent.chat(user_input)
AgentReadInput ==
    /\ script = "cv_agent"
    /\ pc = "AwaitingInput"
    /\ \E line \in InputLines :
          IF IsExitToken(Strip(line)) THEN ExitLoop(Strip(line))
          ELSE IF Strip(line) = EmptyText THEN
              /\ user_input' = Strip(line)
              /\ UNCHANGED <<remote, ingest, script, pc, messages, user_message, target_index,
                             results, context_docs, response, emitted, ret,
                             outcome, raised, turns, turnStart, toolRuns,
                             exitStatus, probe>>
          ELSE BeginTurn(Strip(line), "Selecting")

\* chat without `if not target_index: return ...`
AgentSelectFallsThrough ==
    /\ script = "cv_agent"
    /\ pc = "Selecting"
    /\ \E listing \in TurnListings, openOk \in [IndexNames -> BOOLEAN],
          searchOut \in TurnSelectorSearches, llm \in TurnLlmOutcomes :
          target_index' = CVSelectorRun(listing, openOk, searchOut, llm).ret
    /\ pc' = "Retrieving"
    /\ toolRuns' = [toolRuns EXCEPT !.selector = @ + 1]
    /\ UNCHANGED <<remote, ingest, script, messages, user_input, user_message, emitted, raised,
                   turns, turnStart, exitStatus, probe, ret, outcome, results,
                   context_docs, response>>

\* step 1: target_index = self.cv_selector.run(user_message); no selection
\* returns the fixed message
AgentSelect ==
    /\ script = "cv_agent"
    /\ pc = "Selecting"
    /\ \E listing \in TurnListings, openOk \in [IndexNames -> BOOLEAN],
          searchOut \in TurnSelectorSearches, llm \in TurnLlmOutcomes :
          LET sel == CVSelectorRun(listing, openOk, searchOut, llm)
          IN  IF sel.ret = EmptyText
              THEN /\ pc' = "AwaitingInput"
                   /\ ret' = NoRelevantCV
                   /\ outcome' = "no_selection"
                   /\ LocalsGone
              ELSE /\ pc' = "Retrieving"
                   /\ target_index' = sel.ret
                   /\ UNCHANGED <<ret, outcome, results, context_docs, response>>
    /\ toolRuns' = [toolRuns EXCEPT !.selector = @ + 1]
    /\ UNCHANGED <<remote, ingest, script, messages, user_input, user_message, emitted, raised,
                   turns, turnStart, exitStatus, probe>>

\* step 2: context_docs = self.cv_retriever.run(target_index, user_message)
AgentRetrieve ==
    /\ script = "cv_agent"
    /\ pc = "Retrieving"
    /\ \E openOk \in BOOLEAN, searchOut \in TurnSearchOutcomes :
          /\ results' = (IF openOk THEN searchOut ELSE Failed)
          /\ context_docs' = CVRetrieverRun(openOk, searchOut)
    /\ pc' = "Generating"
    /\ toolRuns' = [toolRuns EXCEPT !.retriever = @ + 1]
    /\ UNCHANGED <<remote, ingest, script, messages, user_input, user_message, target_index,
                   response, emitted, ret, outcome, raised, turns, turnStart,
                   exitStatus, probe>>

\* the history once the system and user messages of the turn are appended
AgentPrompted(msgs, q, target, docs) ==
    add_message(add_message(msgs, "system", SystemMsg), "user",
                AgentUserMsg(q, target, ContextBlob(ContextSnippets(docs))))

\* run without the try block around the completion request
AgentGenerateRaises ==
    /\ script = "cv_agent"
    /\ pc = "Generating"
    /\ toolRuns' = [toolRuns EXCEPT !.responder = @ + 1]
    /\ messages' = AgentPrompted(messages, user_message, target_index, context_docs)
    /\ \E createOk \in BOOLEAN :
          IF createOk
          THEN /\ pc' = "Streaming"
               /\ UNCHANGED <<outcome, raised, exitStatus>>
          ELSE Propagate("CreateError")
    /\ UNCHANGED <<remote, ingest, script, user_input, user_message, emitted, turns, turnStart,
                   probe, ret, target_index, results, context_docs, response>>

\* step 3 and the start of LLMResponderTool.run: the messages are appended
\* and the streamed completion is requested; if the request raises, run
\* returns the apology, which chat appends and returns
AgentGenerate ==
    /\ script = "cv_agent"
    /\ pc = "Generating"
    /\ toolRuns' = [toolRuns EXCEPT !.responder = @ + 1]
    /\ \E createOk \in BOOLEAN :
          IF createOk
          THEN /\ messages' = AgentPrompted(messages, user_message, target_index, context_docs)
               /\ pc' = "Streaming"
               /\ response' = EmptyText
               /\ UNCHANGED <<ret, outcome, target_index, results, context_docs>>
          ELSE /\ messages' = add_message(
                       AgentPrompted(messages, user_message, target_index, context_docs),
                       "assistant", Apology)
               /\ pc' = "AwaitingInput"
               /\ ret' = Apology
               /\ outcome' = "apology"
               /\ LocalsGone
    /\ UNCHANGED <<remote, ingest, script, user_input, user_message, emitted, raised, turns,
                   turnStart, exitStatus, probe>>

\* response = delta + response
AccumulateInFront(resp, delta) == delta \o resp

\* response += delta
Accumulate(resp, delta) == resp \o delta

\* a chunk with a non-empty delta: print(delta), response += delta
AgentStreamFragment ==
    /\ script = "cv_agent"
    /\ pc = "Streaming"
    /\ Len(emitted) < MaxChunks
    /\ \E delta \in Fragments :
          /\ emitted' = Append(emitted, delta)
          /\ response' = Accumulate(response, delta)
    /\ UNCHANGED <<remote, ingest, script, pc, messages, user_input, user_message, target_index,
                   results, context_docs, ret, outcome, raised, turns, turnStart,
                   toolRuns, exitStatus, probe>>

\* a chunk whose delta is empty, None or cannot be read (the except clause
\* leaves delta = ""): nothing is printed or added
AgentStreamEmpty ==
    /\ script = "cv_agent"
    /\ pc = "Streaming"
    /\ UNCHANGED vars

\* pulling the next chunk raises: the for loop is outside any try block, so
\* the exception leaves run, chat and the console loop
AgentStreamError ==
    /\ script = "cv_agent"
    /\ pc = "Streaming"
    /\ Propagate("StreamError")
    /\ UNCHANGED <<remote, ingest, script, messages, user_input, user_message, target_index,
                   results, context_docs, response, emitted, ret, turns,
                   turnStart, toolRuns, probe>>

\* the stream ends: run returns response, chat appends and returns it
AgentStreamEnd ==
    /\ script = "cv_agent"
    /\ pc = "Streaming"
    /\ messages' = add_message(messages, "assistant", response)
    /\ ret' = response
    /\ outcome' = "streamed"
    /\ pc' = "AwaitingInput"
    /\ LocalsGone
    /\ UNCHANGED <<remote, ingest, script, user_input, user_message, emitted, raised, turns,
                   turnStart, toolRuns, exitStatus, probe>>

AgentNext ==
    \/ AgentReadInput
    \/ AgentSelect
    \/ AgentRetrieve
    \/ AgentGenerate
    \/ AgentStreamFragment
    \/ AgentStreamEmpty
    \/ AgentStreamError
    \/ AgentStreamEnd

---------------------------------------------------------------------------
(* TP-2/chat_groq.py: the console loop and ChatSession.chat *)

\* full_user_message = f"{user_message}\n\nContexto: {context_str}" with
\* context_str = ' '.join(context_docs)
BaseUserMsg(q, docs) == q \o <<"\n\nContexto: ">> \o Join(<<" ">>, docs)

\* user_input = input("Tu: "); exit token: break; otherwise
\* session.chat(user_input).  A blank line is a message like any other here
\* and Query stands for it.
BaseReadInput ==
    /\ script = "chat_groq"
    /\ pc = "AwaitingInput"
    /\ \E line \in InputLines \ {<<" ">>} :
          IF IsExitToken(line) THEN ExitLoop(line)
          ELSE BeginTurn(line, "Retrieving")

\* 1. context_docs = search_similar(self.dense_index, user_message, ...):
\* whatever it raises reaches the console loop
BaseRetrieve ==
    /\ script = "chat_groq"
    /\ pc = "Retrieving"
    /\ toolRuns' = [toolRuns EXCEPT !.retriever = @ + 1]
    /\ \E statsOut \in {Failed, Ok(<<>>)}, searchOut \in TurnSearchOutcomes :
          LET out == BaseSearchSimilar(statsOut, searchOut)
          IN  /\ results' = (IF statsOut.ok THEN searchOut ELSE Failed)
              /\ IF out.raised
                 THEN /\ Propagate("SearchError")
                      /\ UNCHANGED context_docs
                 ELSE /\ context_docs' = out.data
                      /\ pc' = "Generating"
                      /\ UNCHANGED <<outcome, raised, exitStatus>>
    /\ UNCHANGED <<remote, ingest, script, messages, user_input, user_message, target_index,
                   response, emitted, ret, turns, turnStart, probe>>

\* 2. the user message is added; 3. the streamed completion is requested,
\* outside any try block
BaseGenerate ==
    /\ script = "chat_groq"
    /\ pc = "Generating"
    /\ toolRuns' = [toolRuns EXCEPT !.responder = @ + 1]
    /\ messages' = add_message(messages, "user", BaseUserMsg(user_message, context_docs))
    /\ \E createOk \in BOOLEAN :
          IF createOk
          THEN /\ pc' = "Streaming"
               /\ response' = EmptyText
               /\ UNCHANGED <<outcome, raised, exitStatus>>
          ELSE /\ Propagate("CreateError")
               /\ UNCHANGED response
    /\ UNCHANGED <<remote, ingest, script, user_input, user_message, target_index, results,
                   context_docs, emitted, ret, turns, turnStart, probe>>

\* 4. delta = chunk.choices[0].delta.content or ""; print(delta);
\* response += delta
BaseStreamDelta ==
    /\ script = "chat_groq"
    /\ pc = "Streaming"
    /\ Len(emitted) < MaxChunks
    /\ \E delta \in Fragments \cup {EmptyText} :
          /\ emitted' = Append(emitted, delta)
          /\ response' = Accumulate(response, delta)
    /\ UNCHANGED <<remote, ingest, script, pc, messages, user_input, user_message, target_index,
                   results, context_docs, ret, outcome, raised, turns, turnStart,
                   toolRuns, exitStatus, probe>>

\* pulling the next chunk raises, or chunk.choices[0].delta cannot be read
BaseStreamError ==
    /\ script = "chat_groq"
    /\ pc = "Streaming"
    /\ Propagate("StreamError")
    /\ UNCHANGED <<remote, ingest, script, messages, user_input, user_message, target_index,
                   results, context_docs, response, emitted, ret, turns,
                   turnStart, toolRuns, probe>>

\* the stream ends: the response is added to the history and returned
BaseStreamEnd ==
    /\ script = "chat_groq"
    /\ pc = "Streaming"
    /\ messages' = add_message(messages, "assistant", response)
    /\ ret' = response
    /\ outcome' = "streamed"
    /\ pc' = "AwaitingInput"
    /\ LocalsGone
    /\ UNCHANGED <<remote, ingest, script, user_input, user_message, emitted, raised, turns,
                   turnStart, toolRuns, exitStatus, probe>>

BaseNext ==
    \/ BaseReadInput
    \/ BaseRetrieve
    \/ BaseGenerate
    \/ BaseStreamDelta
    \/ BaseStreamError
    \/ BaseStreamEnd

---------------------------------------------------------------------------
(* The two console programs *)

\* ------------------------------------------------------------------------
\* TP-2/vector_db.py run as a script: ensure_index, load_data, search loop
\* ------------------------------------------------------------------------

\* chunk.py: windows of chunk_size consecutive sentences, each starting
\* chunk_size - overlap sentences after the one before, the last ones cut
\* at the end of the document
RECURSIVE WindowsFrom(_, _, _, _)
WindowsFrom(sentences, start, chunk_size, step) ==
    IF start > Len(sentences) THEN <<>>
    ELSE <<SubSeq(sentences, start, Min(start + chunk_size - 1, Len(sentences)))>>
            \o WindowsFrom(sentences, start + step, chunk_size, step)

\* overlap >= chunk_size is InvalidConfiguration: no chunks
read_and_chunk_sentences(sentences, chunk_size, overlap) ==
    IF chunk_size <= 0 \/ overlap < 0 \/ overlap >= chunk_size THEN <<>>
    ELSE WindowsFrom(sentences, 1, chunk_size, chunk_size - overlap)

\* the sentences of a document, told apart by their position
Document(n) == [k \in 1..n |-> k]

\* chunking with windows that share no sentence
LoadChunksNoOverlap(sentences) == read_and_chunk_sentences(sentences, CHUNK_SIZE, 0)

\* load_data: read_and_chunk_sentences("cv1.txt", chunk_size=CHUNK_SIZE,
\* overlap=CHUNK_OVERLAP)
LoadChunks(sentences) == read_and_chunk_sentences(sentences, CHUNK_SIZE, CHUNK_OVERLAP)

\* what the chat scripts hold, untouched by vector_db.py's own run
ChatState ==
    <<script, messages, user_message, target_index, results, context_docs,
      response, ret, outcome, turns, turnStart, toolRuns, probe>>

VdbRunning ==
    pc \in {"EnsureIndex", "Listed", "Sleeping", "LoadData", "Upserting", "Searching"}

\* except Exception: logging.error(...); sys.exit(1)
VdbFail(exc) ==
    /\ pc' = "Exited"
    /\ raised' = exc
    /\ exitStatus' = 1

\* pc = Pinecone(api_key=...) at module level, outside any try: an
\* exception ends the interpreter with status 1
VdbStartup ==
    /\ script = "vector_db"
    /\ pc = "Startup"
    /\ \E ok \in BOOLEAN :
          IF ok THEN pc' = "EnsureIndex" /\ UNCHANGED <<raised, exitStatus>>
          ELSE VdbFail("StartupError")
    /\ UNCHANGED <<ChatState, user_input, emitted, remote, ingest>>

\* ensure_index: existing_indexes = [i["name"] for i in pc.list_indexes()]
EnsureList ==
    /\ script = "vector_db"
    /\ pc = "EnsureIndex"
    /\ \E ok \in BOOLEAN :
          IF ok
          THEN /\ pc' = "Listed"
               /\ ingest' = [ingest EXCEPT !.listed = remote.status # "absent"]
               /\ UNCHANGED <<raised, exitStatus>>
          ELSE VdbFail("ListError") /\ UNCHANGED ingest
    /\ UNCHANGED <<ChatState, user_input, emitted, remote>>

\* ensure_index that sends the create request whatever the listing says
EnsureCreateOrReturnAlwaysCreates ==
    /\ script = "vector_db"
    /\ pc = "Listed"
    /\ \E ok \in BOOLEAN :
          IF ok
          THEN /\ remote' = [remote EXCEPT
                                !.status = IF @ = "absent" THEN "creating" ELSE @,
                                !.creates = @ + 1]
               /\ pc' = "Sleeping"
               /\ UNCHANGED <<raised, exitStatus>>
          ELSE /\ remote' = [remote EXCEPT !.creates = @ + 1]
               /\ VdbFail("CreateError")
    /\ UNCHANGED <<ChatState, user_input, emitted, ingest>>

\* ensure_index: if name not in existing_indexes: create_index_for_model(...)
\* and then sleep; else: return pc.Index(name) at once
EnsureCreateOrReturn ==
    /\ script = "vector_db"
    /\ pc = "Listed"
    /\ IF ~ingest.listed
       THEN /\ \E ok \in BOOLEAN :
                  IF ok
                  THEN /\ remote' = [remote EXCEPT
                                        !.status = IF @ = "absent" THEN "creating" ELSE @,
                                        !.creates = @ + 1]
                       /\ pc' = "Sleeping"
                       /\ UNCHANGED <<raised, exitStatus>>
                  ELSE /\ remote' = [remote EXCEPT !.creates = @ + 1]
                       /\ VdbFail("CreateError")
            /\ UNCHANGED ingest
       ELSE /\ pc' = "LoadData"
            /\ ingest' = [ingest EXCEPT !.handle = TRUE]
            /\ UNCHANGED <<remote, raised, exitStatus>>
    /\ UNCHANGED <<ChatState, user_input, emitted>>

\* ensure_index after the create request: time.sleep(5) ends and
\* pc.Index(name) is returned, whatever state the index is in by then
EnsureWake ==
    /\ script = "vector_db"
    /\ pc = "Sleeping"
    /\ pc' = "LoadData"
    /\ ingest' = [ingest EXCEPT !.handle = TRUE]
    /\ UNCHANGED <<ChatState, user_input, emitted, raised, exitStatus, remote>>

\* the vector store finishes building the index, in its own time
RemoteReady ==
    /\ script = "vector_db"
    /\ remote.status = "creating"
    /\ remote' = [remote EXCEPT !.status = "ready"]
    /\ UNCHANGED <<ChatState, pc, user_input, emitted, raised, exitStatus, ingest>>

\* the owner of the account deletes the index, outside the program
RemoteDelete ==
    /\ script = "vector_db"
    /\ remote.status # "absent"
    /\ remote.deletes < MaxDeletes
    /\ remote' = [remote EXCEPT !.status = "absent", !.deletes = @ + 1, !.records = {}]
    /\ UNCHANGED <<ChatState, pc, user_input, emitted, raised, exitStatus, ingest>>

\* load_data: chunks = read_and_chunk_sentences("cv1.txt", ...)
LoadRead ==
    /\ script = "vector_db"
    /\ pc = "LoadData"
    /\ \E n \in 0..MaxSentences :
          ingest' = [ingest EXCEPT !.sentences = n, !.chunks = LoadChunks(Document(n)),
                                   !.i = 1, !.loaded = "running"]
    /\ pc' = "Upserting"
    /\ UNCHANGED <<ChatState, user_input, emitted, raised, exitStatus, remote>>

\* load_data, one pass of the for loop: index.upsert_records(namespace,
\* records=[record]) for chunk i; an exception leaves load_data and reaches
\* the except clause of the script
LoadUpsert ==
    /\ script = "vector_db"
    /\ pc = "Upserting"
    /\ ingest.i <= Len(ingest.chunks)
    /\ \E ok \in BOOLEAN :
          IF ok /\ remote.status # "absent"
          THEN /\ remote' = [remote EXCEPT !.records = @ \cup {ingest.i}]
               /\ ingest' = [ingest EXCEPT !.acked = @ \cup {ingest.i}, !.i = @ + 1]
               /\ UNCHANGED <<pc, raised, exitStatus>>
          ELSE /\ ingest' = [ingest EXCEPT !.loaded = "failed"]
               /\ VdbFail("UpsertError")
               /\ UNCHANGED remote
    /\ UNCHANGED <<ChatState, user_input, emitted>>

\* load_data after its loop: time.sleep(5) and return
LoadDone ==
    /\ script = "vector_db"
    /\ pc = "Upserting"
    /\ ingest.i > Len(ingest.chunks)
    /\ pc' = "Searching"
    /\ ingest' = [ingest EXCEPT !.loaded = "done"]
    /\ UNCHANGED <<ChatState, user_input, emitted, raised, exitStatus, remote>>

VdbSearchOutcomes ==
    {Failed, Ok(<<>>), Ok(<<GoodHit(Id1, 912, ShortText)>>), Ok(<<HitNoCategory>>)}

\* the search loop: msg = input(...).strip(); an empty msg ends the script,
\* any other is handed to search_similar, whose exceptions end the script
VdbSearch ==
    /\ script = "vector_db"
    /\ pc = "Searching"
    /\ \E line \in {<<" ">>, Query} :
          /\ user_input' = Strip(line)
          /\ IF Strip(line) = EmptyText
             THEN /\ pc' = "Exited"
                  /\ exitStatus' = 0
                  /\ UNCHANGED <<raised, emitted>>
             ELSE \E statsOut \in {Failed, Ok(<<>>)}, searchOut \in VdbSearchOutcomes :
                     LET out == BaseSearchSimilar(statsOut, searchOut)
                     IN  IF out.raised
                         THEN VdbFail("SearchError") /\ UNCHANGED emitted
                         ELSE /\ emitted' = out.data
                              /\ UNCHANGED <<pc, raised, exitStatus>>
    /\ UNCHANGED <<ChatState, remote, ingest>>

\* Ctrl-C anywhere inside the try block: except KeyboardInterrupt: sys.exit(0)
VdbInterrupt ==
    /\ script = "vector_db"
    /\ VdbRunning
    /\ pc' = "Exited"
    /\ raised' = "KeyboardInterrupt"
    /\ exitStatus' = 0
    /\ UNCHANGED <<ChatState, user_input, emitted, remote, ingest>>

\* the script is started again against the same vector store
VdbRerun ==
    /\ script = "vector_db"
    /\ pc = "Exited"
    /\ ingest.runs < MaxRuns
    /\ pc' = "Startup"
    /\ raised' = "none"
    /\ exitStatus' = -1
    /\ user_input' = EmptyText
    /\ emitted' = <<>>
    /\ ingest' = [NoIngest EXCEPT !.runs = ingest.runs + 1]
    /\ UNCHANGED <<ChatState, remote>>

InitIngest == script = "vector_db" /\ InitCommon

NextIngest ==
    \/ VdbStartup
    \/ EnsureList
    \/ EnsureCreateOrReturn
    \/ EnsureWake
    \/ RemoteReady
    \/ RemoteDelete
    \/ LoadRead
    \/ LoadUpsert
    \/ LoadDone
    \/ VdbSearch
    \/ VdbInterrupt
    \/ VdbRerun

SpecIngest == InitIngest /\ [][NextIngest]_vars

Init == script \in {"cv_agent", "chat_groq"} /\ InitCommon

Next ==
    \/ StartupOk
    \/ StartupFail
    \/ Interrupt
    \/ AgentNext
    \/ BaseNext

Spec == Init /\ [][Next]_vars

---------------------------------------------------------------------------
(* Properties *)

\* sub occurs in t as a contiguous run
Contains(t, sub) ==
    \E i \in 0..(Len(t) - Len(sub)) : SubSeq(t, i + 1, i + Len(sub)) = sub

SelectorProbed == probe.tool = "selector"
Listed == IF probe.listing.ok THEN Range(probe.listing.value) ELSE {}
Answered == probe.llm.ok /\ probe.llm.has_content

\* C1 (as stated): CVSelectorTool.run returns the empty string or a name
\* that list_indexes listed in the same call, and every answer text that is
\* not itself a listed name yields the empty string.
C1_FailClosedExact ==
    SelectorProbed =>
        /\ probe.sel.ret = EmptyText \/ probe.sel.ret \in Listed
        /\ (Answered /\ probe.llm.content \notin Listed) => probe.sel.ret = EmptyText

\* C1 (amended): CVSelectorTool.run returns the empty string or a name that
\* list_indexes listed in the same call, and every answer that, once its
\* leading and trailing whitespace is stripped, is not a listed name yields
\* the empty string.
C1_FailClosedStripped ==
    SelectorProbed =>
        /\ probe.sel.ret = EmptyText \/ probe.sel.ret \in Listed
        /\ (Answered /\ Strip(probe.llm.content) \notin Listed) => probe.sel.ret = EmptyText

\* a listed name with other text around it was answered and nothing selected
C1_Witness ==
    /\ SelectorProbed
    /\ Answered
    /\ Strip(probe.llm.content) \notin Listed
    /\ \E n \in Listed : Contains(probe.llm.content, n)
    /\ probe.sel.ret = EmptyText

\* C2: when list_indexes returns no index, run returns the empty string
\* and has issued no index open, no search and no language-model call.
C2_NoIndexesNoCalls ==
    (SelectorProbed /\ probe.listing.ok /\ probe.listing.value = <<>>) =>
        /\ probe.sel.ret = EmptyText
        /\ \A i \in 1..Len(probe.sel.calls) :
              probe.sel.calls[i].op \notin {"Index", "search", "chat.completions.create"}

C2_Witness ==
    /\ SelectorProbed
    /\ probe.listing.ok
    /\ probe.listing.value = <<>>
    /\ probe.llm.ok
    /\ probe.sel.calls = <<Call("list_indexes", EmptyText)>>

AssistantsSince(n) ==
    {i \in (n + 1)..Len(messages) : messages[i].role = "assistant"}

\* C3: a turn whose responder streamed to the end returns the concatenation,
\* in arrival order, of the fragments it emitted, and the turn has appended
\* exactly one assistant message, the last of the history, holding that
\* string.
C3_StreamedTurn ==
    outcome = "streamed" =>
        /\ ret = Concat(emitted)
        /\ Len(messages) > turnStart
        /\ messages[Len(messages)] = Message("assistant", ret)
        /\ Cardinality(AssistantsSince(turnStart)) = 1

\* a second turn has streamed two different fragments to the end
C3_Witness ==
    /\ outcome = "streamed"
    /\ turnStart > 0
    /\ Len(emitted) = 2
    /\ emitted[1] # emitted[2]
    /\ emitted[1] # EmptyText
    /\ emitted[2] # EmptyText

\* an optional first system message, then user, assistant, user, ...
Alternates(msgs) ==
    LET body == IF msgs # <<>> /\ msgs[1].role = "system" THEN Tail(msgs) ELSE msgs
    IN  \A i \in 1..Len(body) :
            body[i].role = (IF i % 2 = 1 THEN "user" ELSE "assistant")

\* C4: after any sequence of chat turns the history is an optional single
\* initial system message followed by strictly alternating user and
\* assistant messages.
C4_RolesAlternate == pc \in {"AwaitingInput", "Exited"} => Alternates(messages)

\* C5: the history is append-only: every step of a turn, failing or not,
\* leaves the history it found as a prefix of the history it leaves.
C5_AppendOnly == [][IsPrefix(messages, messages')]_vars

\* a turn that failed after earlier turns, with the earlier history in place
C5_Witness ==
    /\ raised \in {"StreamError", "CreateError"}
    /\ turnStart > 0
    /\ Len(messages) > turnStart

\* C6: whenever the language-model service fails during generation, at the
\* creation of the request or while a fragment is pulled, the chat call
\* gets the apology string back and no error propagates.
C6_GenerationFailureApologises ==
    /\ raised \notin {"CreateError", "StreamError"}
    /\ outcome = "apology" => ret = Apology

\* C7: once startup has succeeded the console loop ends only on an exit
\* token or a user interrupt; no failure of a remote call ends it.
C7_OnlyExitOrInterruptEndsLoop ==
    (pc = "Exited" /\ exitStatus # 1) =>
        \/ raised = "KeyboardInterrupt"
        \/ raised = "none" /\ IsExitToken(user_input)

\* the user message the current turn appended
TurnUserMessage ==
    messages[turnStart + (IF script = "cv_agent" THEN 2 ELSE 1)]

\* C8: every hit text of the turn's search payload is in the user message
\* sent to the language model in full, untruncated.
C8_FullTextInUserMessage ==
    (toolRuns.responder = 1 /\ results.ok) =>
        \A i \in 1..Len(results.value) :
            LET h == results.value[i]
            IN  (h.fields_kind = "dict" /\ h.has_text) =>
                    Contains(TurnUserMessage.content, h.text)

AllOnlyLackFields(hits) == \A i \in 1..Len(hits) : OnlyLacksFields(hits[i])

\* the record the claim expects for a hit that may lack fields
DefaultedRecord(h) ==
    [id |-> IF h.has_id THEN h.id ELSE EmptyText,
     score |-> IF h.score_kind = "number" THEN Round2(h.score) ELSE 0,
     category |-> IF h.fields_kind = "dict" /\ h.has_category THEN h.category ELSE EmptyText,
     text |-> IF h.fields_kind = "dict" /\ h.has_text THEN h.text ELSE EmptyText]

\* C9: for a payload whose hits at most lack fields, search_similar (of
\* cv_agent and of vector_db) does not raise and returns one record per
\* hit, a missing field being the empty string or a zero score.
C9_MissingFieldsDefaulted ==
    /\ (probe.tool = "agent_search" /\ probe.searchOut.ok
            /\ AllOnlyLackFields(probe.searchOut.value)) =>
          /\ Len(probe.agentData) = Len(probe.searchOut.value)
          /\ \A i \in 1..Len(probe.agentData) :
                probe.agentData[i] = DefaultedRecord(probe.searchOut.value[i])
    /\ (probe.tool = "base_search" /\ probe.statsOut.ok /\ probe.searchOut.ok
            /\ AllOnlyLackFields(probe.searchOut.value)) =>
          /\ ~probe.baseOut.raised
          /\ Len(probe.baseOut.data) = Len(probe.searchOut.value)

RaisingHits(hits) == {i \in 1..Len(hits) : AgentEntryRaises(hits[i])}

\* C10: when one hit of a payload is malformed, cv_agent's search_similar
\* returns the records of all the other hits, those before and those after
\* it, in order.
C10_OnlyMalformedHitSkipped ==
    (probe.tool = "agent_search" /\ probe.searchOut.ok
        /\ Cardinality(RaisingHits(probe.searchOut.value)) = 1) =>
        LET good == SelectSeq(probe.searchOut.value, LAMBDA h : ~AgentEntryRaises(h))
        IN  probe.agentData = [i \in 1..Len(good) |-> DefaultedRecord(good[i])]

\* the steps of the agent's console loop that change pc, in the order the
\* turn allows them
StagesInOrder ==
    /\ (pc = "AwaitingInput" /\ pc' \notin {"AwaitingInput", "Exited"}) => pc' = "Selecting"
    /\ (pc' = "Retrieving" /\ pc # "Retrieving") => pc = "Selecting"
    /\ (pc' = "Generating" /\ pc # "Generating") => pc = "Retrieving"
    /\ (pc' = "Streaming" /\ pc # "Streaming") => pc = "Generating"

\* C11 (as stated): every accepted turn of the agent goes through
\* Selecting, Retrieving and Generating, in that order, before the session
\* awaits input again; no turn goes from Selecting back to awaiting input.
C11_AllStagesEveryTurn ==
    [][script = "cv_agent" =>
          /\ StagesInOrder
          /\ (pc' = "AwaitingInput" /\ pc # "AwaitingInput") =>
                pc \in {"Startup", "Generating", "Streaming"}]_vars

\* C11 (amended): every accepted turn of the agent starts in Selecting; a
\* turn in which an index is selected goes on through Retrieving and then
\* Generating before the session awaits input again, and a turn with no
\* selection goes from Selecting straight back to awaiting input.
C11_StagesUnlessNoSelection ==
    [][script = "cv_agent" =>
          /\ StagesInOrder
          /\ (pc' = "AwaitingInput" /\ pc # "AwaitingInput") =>
                \/ pc \in {"Startup", "Generating", "Streaming"}
                \/ pc = "Selecting" /\ outcome' = "no_selection"]_vars

\* a turn that ran all three tools is over and the agent awaits input
C11_Witness ==
    /\ script = "cv_agent"
    /\ pc = "AwaitingInput"
    /\ outcome = "streamed"
    /\ toolRuns = [selector |-> 1, retriever |-> 1, responder |-> 1]

\* C12: a client that cannot be constructed at startup ends the process
\* with status 1 before any line is read or any turn started; a loop that
\* ends on an exit token or on a user interrupt ends it with status 0.
C12_ExitStatus ==
    /\ [](/\ raised = "StartupError" =>
                /\ pc = "Exited"
                /\ exitStatus = 1
                /\ turns = 0
                /\ user_input = EmptyText
                /\ messages = <<>>
          /\ (pc = "Exited" /\ raised = "KeyboardInterrupt") => exitStatus = 0
          /\ (pc = "Exited" /\ raised = "none" /\ Lower(user_input) \in ExitTokens) =>
                exitStatus = 0)
    /\ [][raised' = "StartupError" => pc = "Startup" \/ raised = "StartupError"]_vars

C12_Witness == pc = "Exited" /\ raised = "StartupError" /\ exitStatus = 1

\* C13: in both console loops a line that is exit or quit in any letter
\* case ends the loop, and no turn is run for it: no tool runs and the
\* history, the turn count and the last returned value stay as they were.
C13_ExitTokenEndsLoop ==
    [][(pc = "AwaitingInput" /\ raised' = "none"
            /\ user_input' \in {l \in InputLines : Lower(l) \in ExitTokens}) =>
          /\ pc' = "Exited"
          /\ exitStatus' = 0
          /\ UNCHANGED <<messages, turns, toolRuns, ret, outcome, emitted>>]_vars

\* the loop ended on a mixed-case token after a turn
C13_Witness ==
    /\ pc = "Exited"
    /\ raised = "none"
    /\ user_input = <<"Q", "u", "I", "t">>
    /\ turns > 0

\* C14: in the agent a line that is empty once trimmed is ignored:
\* agent.chat is not called (no tool runs, same history, same turn count)
\* and the loop awaits the next line.
C14_EmptyLineIgnored ==
    [][(script = "cv_agent" /\ pc = "AwaitingInput" /\ raised' = "none"
            /\ user_input' = EmptyText) =>
          /\ pc' = "AwaitingInput"
          /\ UNCHANGED <<messages, turns, toolRuns, ret, outcome, emitted,
                         user_message, turnStart>>]_vars

\* a blank line was read after a turn and the agent awaits input
C14_Witness ==
    /\ script = "cv_agent"
    /\ pc = "AwaitingInput"
    /\ turns > 0
    /\ user_input = EmptyText

\* C19: when the selector returns no selection the turn ends there: the
\* retriever and the responder are not run, the history is as it was and
\* chat returns the fixed 'no relevant CV' message.
C19_NoSelectionEndsTurn ==
    [][(script = "cv_agent" /\ pc = "Selecting" /\ pc' \notin {"Selecting", "Exited"}
            /\ target_index' = EmptyText) =>
          /\ pc' = "AwaitingInput"
          /\ outcome' = "no_selection"
          /\ ret' = <<"No encontre un CV relevante para tu consulta.">>
          /\ messages' = messages
          /\ toolRuns' = [selector |-> 1, retriever |-> 0, responder |-> 0]]_vars

\* a second turn ended with no selection, the first turn's history in place
C19_Witness ==
    /\ script = "cv_agent"
    /\ pc = "AwaitingInput"
    /\ outcome = "no_selection"
    /\ messages # <<>>
    /\ Len(messages) = turnStart

\* C20: when an index was selected and the completion request raises, the
\* turn completes: the history gains the turn's system and user messages
\* and then one assistant message holding the apology, which chat returns.
C20_CreateFailureApology ==
    [][(script = "cv_agent" /\ pc = "Generating" /\ pc' \notin {"Generating", "Streaming"}
            /\ raised' # "KeyboardInterrupt") =>
          /\ pc' = "AwaitingInput"
          /\ ret' = <<"Ocurrio un error generando la respuesta.">>
          /\ Len(messages') = Len(messages) + 3
          /\ IsPrefix(messages, messages')
          /\ messages'[Len(messages) + 2].role = "user"
          /\ messages'[Len(messages) + 3] = Message("assistant", ret')
          /\ Cardinality({i \in (Len(messages) + 1)..Len(messages') :
                            messages'[i].role = "assistant"}) = 1]_vars

C20_Witness ==
    /\ script = "cv_agent"
    /\ pc = "AwaitingInput"
    /\ outcome = "apology"
    /\ ret = Apology
    /\ messages[Len(messages)].role = "assistant"

\* C15: ensure_index sends the create request only when its listing lacks
\* the name, so never while a created index is still there; when the
\* listing has the name it sends no create request and returns the handle.
C15_CreateOnlyWhenAbsent ==
    [][/\ remote'.creates # remote.creates =>
             /\ pc = "Listed"
             /\ ~ingest.listed
             /\ remote.status = "absent"
             /\ remote'.creates = remote.creates + 1
       /\ (pc = "Listed" /\ ingest.listed /\ pc' \notin {"Listed", "Exited"}) =>
             /\ remote'.creates = remote.creates
             /\ ingest'.handle
             /\ pc' = "LoadData"]_vars

\* a second run found the index of the first run and got its handle
C15_Witness ==
    /\ script = "vector_db"
    /\ ingest.runs = 2
    /\ ingest.listed
    /\ ingest.handle
    /\ remote.creates = 1
    /\ remote.deletes = 0

\* C16: ensure_index never returns a handle while the index is still
\* being created.
C16_HandleOnlyWhenReady ==
    [][(~ingest.handle /\ ingest'.handle) => remote.status # "creating"]_vars

\* C17: when load_data is over, by return or by exception, every chunk
\* it produced was accepted by the vector store at least once.
C17_EveryChunkDelivered ==
    ingest.loaded \in {"done", "failed"} => ingest.acked = 1..Len(ingest.chunks)

\* ceil(a / b) for a >= 0, b > 0
CeilDiv(a, b) == (a + b - 1) \div b

Max(a, b) == IF a > b THEN a ELSE b

\* the last n elements of a sequence, all of it when it is shorter
LastN(q, n) == SubSeq(q, Max(1, Len(q) - n + 1), Len(q))

\* load_data has chunked a document of at least one sentence
Chunked == ingest.loaded # "no" /\ ingest.sentences >= 1

\* every chunk after the first starts with the last CHUNK_OVERLAP
\* sentences of the chunk before it, and with no more of them
OverlapRepeated ==
    \A k \in 2..Len(ingest.chunks) :
        LET prev == ingest.chunks[k - 1]
            cur  == ingest.chunks[k]
        IN  /\ IsPrefix(LastN(prev, CHUNK_OVERLAP), cur)
            /\ ~IsPrefix(LastN(prev, CHUNK_OVERLAP + 1), cur)

\* C18 (as stated): with chunk_size 3 and overlap 1 a document of N >= 1
\* sentences gives ceil(N / 2) chunks, which is also
\* ceil(max(0, N - overlap) / (chunk_size - overlap)), and every chunk
\* after the first starts with the last `overlap` sentences of the one
\* before it.
C18_CountIsGeneralFormula ==
    Chunked =>
        /\ Len(ingest.chunks) = CeilDiv(ingest.sentences, 2)
        /\ Len(ingest.chunks) =
              CeilDiv(Max(0, ingest.sentences - CHUNK_OVERLAP), CHUNK_SIZE - CHUNK_OVERLAP)
        /\ OverlapRepeated

\* C18 (amended): with chunk_size 3 and overlap 1 a document of N >= 1
\* sentences gives ceil(N / 2) chunks; that is the value of
\* ceil(max(0, N - overlap) / (chunk_size - overlap)) when N is even and
\* one more than it when N is odd; every chunk after the first starts
\* with the last `overlap` sentences of the one before it.
C18_CountIsHalfRoundedUp ==
    Chunked =>
        /\ Len(ingest.chunks) = CeilDiv(ingest.sentences, 2)
        /\ Len(ingest.chunks) =
              CeilDiv(Max(0, ingest.sentences - CHUNK_OVERLAP), CHUNK_SIZE - CHUNK_OVERLAP)
                 + (ingest.sentences % 2)
        /\ OverlapRepeated

\* five sentences were chunked into three chunks, the last one cut short
C18_Witness ==
    /\ Chunked
    /\ ingest.sentences = 5
    /\ Len(ingest.chunks) = 3
    /\ ingest.chunks[3] = <<5>>

===========================================================================
